---- MODULE Spec2Model ----
(***************************************************************************)
(* GaussianDiffusion of denoising_diffusion_pytorch/simple_diffusion.py:   *)
(* the log-SNR schedules, the constructor's validation, the ancestral      *)
(* sampler (p_mean_variance / p_sample / p_sample_loop / sample) and the   *)
(* training loss (q_sample / p_losses / forward).                          *)
(*                                                                         *)
(* Numbers.  A tensor is its shape plus one representative element: every  *)
(* operation of the diffusion core is elementwise and the denoisers        *)
(* modelled here are elementwise too.  Elements and the coefficients       *)
(* alpha, sigma, c are decimal fixed point with Unit = 1.0; the squared    *)
(* coefficients (sigmoid values, variances) carry Unit*Unit = 1.0 so that  *)
(* their square roots keep four digits; log-SNR values carry Milli = 1.0.  *)
(* Every product is split so that no intermediate leaves 32 bits.  NaN is  *)
(* a value of its own and propagates through arithmetic as IEEE-754 does.  *)
(* A time t in [0,1] is the integer j with t = j / Grid.                   *)
(***************************************************************************)
EXTENDS Integers, Sequences, FiniteSets, TLC

VARIABLES
  diffusion,  \* the GaussianDiffusion object, or what its constructor raised
  args,       \* the arguments the constructor was called with
  pc,         \* "new": not constructed; "idle"; "sampling": inside p_sample_loop
  generator,  \* state of the global random generator
  loop,       \* locals of the running p_sample_loop: i, img, shape, seed
  calls,      \* what the current (or last) call did: model calls, draws
  ret,        \* the last finished call: its name, its value or what it raised
  trace,      \* the transitions of the current (or last) sampling run
  twin,       \* img of the same run on an object whose clip_sample_denoised is flipped
  prevRun     \* seed, shape and output of an earlier finished sampling run

vars == << diffusion, args, pc, generator, loop, calls, ret, trace, twin, prevRun >>

\* ------------------------------------------------------------------ bounds
MaxSteps == 4              \* num_sample_steps ranges over 1..MaxSteps
MaxBatch == 2              \* batch sizes range over 1..MaxBatch

\* --------------------------------------------------------------- numerics
Unit  == 10^4
Unit2 == Unit * Unit
Milli == 10^3
NaN   == 0 - 10^9

IsNaN(a) == a = NaN

Add(a, b) == IF IsNaN(a) \/ IsNaN(b) THEN NaN ELSE a + b
Sub(a, b) == IF IsNaN(a) \/ IsNaN(b) THEN NaN ELSE a - b

\* a * b / Unit, the product of two fixed-point numbers
MulRaw(a, b) == (a \div Unit) * b + ((a % Unit) * b) \div Unit
Mul(a, b) == IF IsNaN(a) \/ IsNaN(b) THEN NaN ELSE MulRaw(a, b)

\* a * Unit / b, the quotient of two fixed-point numbers.  The only divisor
\* is alpha, which stays positive for every resolution in Resolutions and
\* ImageSizes; b = 0 is kept as NaN.
Div(a, b) ==
  IF IsNaN(a) \/ IsNaN(b) \/ b = 0 THEN NaN
  ELSE (a \div b) * Unit + ((a % b) * Unit) \div b

\* Tensor.clamp_(lo, hi): NaN stays NaN
Clamp(a, lo, hi) ==
  IF IsNaN(a) THEN NaN ELSE IF a < lo THEN lo ELSE IF a > hi THEN hi ELSE a

RECURSIVE ISqrt(_)
ISqrt(n) ==
  IF n < 2 THEN n
  ELSE LET s == 2 * ISqrt(n \div 4)
       IN  IF (s + 1) * (s + 1) <= n THEN s + 1 ELSE s

\* torch.sqrt of a value carrying Unit2: NaN for a negative argument
Sqrt(v) == IF IsNaN(v) \/ v < 0 THEN NaN ELSE ISqrt(v)

\* e^(-k) * Unit2 for k = 0, 1, 2, ...
EPow == << 100000000, 36787944, 13533528, 4978707, 1831564, 673795, 247875,
           91188, 33546, 12341, 4540, 1670, 614, 226, 83, 31, 11, 4, 2, 1 >>
\* e^(-a/10) * Unit for a = 0..9
ETenth == << 10000, 9048, 8187, 7408, 6703, 6065, 5488, 4966, 4493, 4066 >>

\* e^(-n/Milli) * Unit2 for n >= 0
ExpNeg(n) ==
  LET k == n \div Milli
      r == n % Milli
      a == r \div 100
      b == r % 100
      small == Unit - 10 * b + (b * b) \div 200
      frac  == MulRaw(ETenth[a + 1], small)
  IN  IF k >= Len(EPow) THEN 0 ELSE MulRaw(EPow[k + 1], frac)

\* e^(d/Milli) * Unit
Exp(d) ==
  IF d <= 0 THEN ExpNeg(0 - d) \div Unit
  ELSE LET e == ExpNeg(d) \div Unit
       IN  IF e = 0 THEN Unit2 ELSE Unit2 \div e

\* torch.special.expm1
Expm1(d) == Exp(d) - Unit

\* Tensor.sigmoid of a log-SNR, carrying Unit2
Sigmoid(l) ==
  LET e == ExpNeg(IF l < 0 THEN 0 - l ELSE l)
      s == IF e < Unit THEN e - (e * e) \div (Unit2 + e)
           ELSE (((e \div Unit) * Unit) \div (Unit + (e \div Unit))) * Unit
  IN  IF l <= 0 THEN s ELSE Unit2 - s

\* ------------------------------------------------------------ input sets
None == 0 - 1
exists(val) == val # None

Objectives  == {"v", "eps"}
ObjectiveArgs == {"v", "eps", "x0"}      \* "x0" is not an objective
ImageSizes  == {8, 16}
Resolutions == {8, 512}                  \* values given for noise_d*
ChannelSet  == {3}                       \* channels of the object and its denoiser
InputChannels == {1, 3}                  \* channel counts of batches given to forward
DenoiserKinds == {"zero", "echo", "nan"} \* pred = 0, pred = x, pred = NaN

\* ------------------------------------------------------------- schedules
\* -2 * log(tan(t_min + t * (t_max - t_min))) * Milli at t = j / Grid,
\* j = 0..Grid, with logsnr_min = -15 and logsnr_max = 15.  tan(...) stays
\* above e^(-7.5) on [0,1], so the eps = 1e-20 floor of log() never acts.
CosineTable ==
  << 15000, 7245, 5878, 5071, 4496, 4048, 3680, 3366, 3093, 2850, 2631, 2431,
     2246, 2074, 1913, 1761, 1617, 1479, 1347, 1220, 1098, 979, 863, 749, 638,
     529, 422, 315, 210, 105, 0, -105, -210, -315, -422, -529, -638, -749,
     -863, -979, -1098, -1220, -1347, -1479, -1617, -1761, -1913, -2074,
     -2246, -2431, -2631, -2850, -3093, -3366, -3680, -4048, -4496, -5071,
     -5878, -7245, -15000 >>
Grid == Len(CosineTable) - 1
Times == 0 .. Grid

logsnr_schedule_cosine(t) == CosineTable[t + 1]

\* math.log(n) * Milli
MathLog(n) ==
  CASE n = 8 -> 2079 [] n = 16 -> 2773 [] n = 512 -> 6238

\* logsnr_schedule_shifted: the closure holds fn and the cell shift
logsnr_schedule_shifted(fn, image_d, noise_d) ==
  [kind |-> "shifted", fn |-> fn,
   shift |-> 2 * (MathLog(noise_d) - MathLog(image_d))]

\* logsnr_schedule_interpolated: the closure holds the two shifted closures
logsnr_schedule_interpolated(fn, image_d, noise_d_low, noise_d_high) ==
  [kind |-> "interpolated",
   logsnr_low_fn  |-> logsnr_schedule_shifted(fn, image_d, noise_d_low),
   logsnr_high_fn |-> logsnr_schedule_shifted(fn, image_d, noise_d_high)]

CosineFn == [kind |-> "cosine"]

\* the cell written by every call
ShiftAfterCall_accumulated(shift) == shift + 1

\* the nonlocal cell of a shifted closure after one call of inner: the code
\* declares it nonlocal and never assigns it
ShiftAfterCall(shift) == shift

\* the two weights exchanged
InterpolatedValue_swapped(t, low, high) ==
  ((Grid - t) * low + t * high) \div Grid

\* inner of logsnr_schedule_interpolated on the two values it obtained
InterpolatedValue(t, low, high) == (t * low + (Grid - t) * high) \div Grid

\* A call fn(t) of a schedule closure: the value it returns and the closure
\* as the call leaves it.
RECURSIVE Call(_, _)
Call(fn, t) ==
  CASE fn.kind = "cosine" ->
         [val |-> logsnr_schedule_cosine(t), fn |-> fn]
    [] fn.kind = "shifted" ->
         LET r == Call(fn.fn, t)
         IN  [val |-> r.val + fn.shift,
              fn  |-> [kind |-> "shifted", fn |-> r.fn,
                       shift |-> ShiftAfterCall(fn.shift)]]
    [] fn.kind = "interpolated" ->
         LET lo == Call(fn.logsnr_low_fn, t)
             hi == Call(fn.logsnr_high_fn, t)
         IN  [val |-> InterpolatedValue(t, lo.val, hi.val),
              fn  |-> [kind |-> "interpolated",
                       logsnr_low_fn |-> lo.fn, logsnr_high_fn |-> hi.fn]]

\* how many decorators wrap the base schedule
RECURSIVE Wrappers(_)
Wrappers(fn) ==
  CASE fn.kind = "cosine" -> 0
    [] fn.kind = "shifted" -> 1 + Wrappers(fn.fn)
    [] fn.kind = "interpolated" -> 1 + Wrappers(fn.logsnr_low_fn.fn)

\* ----------------------------------------------------------- constructor
NoError == ""                            \* nothing was raised
\* the assertion dropped
NotAllGiven_dropped(noise_d, noise_d_low, noise_d_high) == TRUE

\* the first schedule assertion: not all three of noise_d, noise_d_low and
\* noise_d_high are given
NotAllGiven(noise_d, noise_d_low, noise_d_high) ==
  ~(exists(noise_d) /\ exists(noise_d_low) /\ exists(noise_d_high))

\* self.log_snr as __init__ builds it (both assertions passed)
BuildLogSnr(image_size, noise_d, noise_d_low, noise_d_high) ==
  LET base == CosineFn
      s1 == IF exists(noise_d)
            THEN logsnr_schedule_shifted(base, image_size, noise_d) ELSE base
  IN  IF exists(noise_d_low) \/ exists(noise_d_high)
      THEN logsnr_schedule_interpolated(s1, image_size, noise_d_low, noise_d_high)
      ELSE s1

\* GaussianDiffusion.__init__: the object, or the assertion that stopped it
GaussianDiffusion(a) ==
  IF a.pred_objective \notin Objectives
  THEN [raised |-> "AssertionError:pred_objective"]
  ELSE IF ~NotAllGiven(a.noise_d, a.noise_d_low, a.noise_d_high)
  THEN [raised |-> "AssertionError:noise_d"]
  ELSE IF (exists(a.noise_d_low) \/ exists(a.noise_d_high))
          /\ ~(exists(a.noise_d_low) /\ exists(a.noise_d_high))
  THEN [raised |-> "AssertionError:noise_d_low_high"]
  ELSE [raised |-> NoError,
        model |-> a.model,
        channels |-> a.channels,
        image_size |-> a.image_size,
        pred_objective |-> a.pred_objective,
        log_snr |-> BuildLogSnr(a.image_size, a.noise_d, a.noise_d_low,
                                a.noise_d_high),
        num_sample_steps |-> a.num_sample_steps,
        clip_sample_denoised |-> a.clip_sample_denoised]

\* -------------------------------------------------- the random generator
\* torch's global generator: a state that every draw advances, so a stream
\* is a function of the seed alone.
RngStates == 0 .. 7
RngNext(s) == (5 * s + 3) % 8
\* the standard-normal element a state yields
RandnValue(s) ==
  << 0 - 15000, 5000, 0, 12000, 0 - 4000, 15000, 0 - 10000, 20000 >>[s + 1]
\* the uniform time in [0,1) a state yields
UniformValue(s) == (23 * s) % Grid

\* ------------------------------------------------------------ the denoiser
\* self.model(x, log_snr): the prediction for the element x
ModelCall(model, x) ==
  CASE model.kind = "zero" -> 0
    [] model.kind = "echo" -> x
    [] model.kind = "nan"  -> NaN

\* ---------------------------------------------------------- normalization
normalize_to_neg_one_to_one(img) == Sub(Mul(img, 2 * Unit), Unit)
\* the inverse normalization without its factor 0.5
unnormalize_unscaled(t) == Add(t, Unit)

unnormalize_to_zero_to_one(t) == Mul(Add(t, Unit), Unit \div 2)

\* ------------------------------------------------------- p_mean_variance
\* self.log_snr(time) and then self.log_snr(time_next): the two values and
\* the closure as the two calls leave it
SecondCall(log_snr, r2) ==
  [log_snr |-> log_snr, log_snr_next |-> r2.val, fn |-> r2.fn]
FirstCall(r1, time_next) == SecondCall(r1.val, Call(r1.fn, time_next))
LogSnrPair(fn, time, time_next) == FirstCall(Call(fn, time), time_next)

\* expm1 without its negation
Coefficients_unnegated(log_snr, log_snr_next) ==
  [c |-> Expm1(log_snr - log_snr_next),
   alpha |-> Sqrt(Sigmoid(log_snr)),
   sigma |-> Sqrt(Sigmoid(0 - log_snr)),
   alpha_next |-> Sqrt(Sigmoid(log_snr_next)),
   squared_sigma_next |-> Sigmoid(0 - log_snr_next)]

\* c, the squared coefficients and their square roots
Coefficients(log_snr, log_snr_next) ==
  [c |-> 0 - Expm1(log_snr - log_snr_next),
   alpha |-> Sqrt(Sigmoid(log_snr)),
   sigma |-> Sqrt(Sigmoid(0 - log_snr)),
   alpha_next |-> Sqrt(Sigmoid(log_snr_next)),
   squared_sigma_next |-> Sigmoid(0 - log_snr_next)]

\* x_start from the prediction, by objective
XStart(self, x, k, pred) ==
  IF self.pred_objective = "v"
  THEN Sub(Mul(k.alpha, x), Mul(k.sigma, pred))
  ELSE Div(Sub(x, Mul(k.sigma, pred)), k.alpha)

\* the clamp applied only when clip_sample_denoised is set
ClampXStart_flagged(self, x_start) ==
  IF self.clip_sample_denoised THEN Clamp(x_start, 0 - Unit, Unit) ELSE x_start

\* x_start.clamp_(-1., 1.) as p_mean_variance applies it
ClampXStart(self, x_start) == Clamp(x_start, 0 - Unit, Unit)

\* model_mean = alpha_next * (x * (1 - c) / alpha + c * x_start)
ModelMean(x, k, x_start) ==
  Mul(Add(Div(Mul(x, Unit - k.c), k.alpha), Mul(k.c, x_start)), k.alpha_next)

\* posterior_variance = squared_sigma_next * c, carrying Unit2
PosteriorVariance(k) == MulRaw(k.squared_sigma_next, k.c)

\* the return value of p_mean_variance, with the locals the properties read
Estimate(self, x, s, k, x_start_raw) ==
  [model_mean |-> ModelMean(x, k, ClampXStart(self, x_start_raw)),
   posterior_variance |-> PosteriorVariance(k),
   log_snr |-> s.log_snr, log_snr_next |-> s.log_snr_next,
   c |-> k.c, alpha |-> k.alpha,
   x_start_raw |-> x_start_raw,
   x_start |-> ClampXStart(self, x_start_raw),
   fn |-> s.fn]

WithCoefficients(self, x, s, k) ==
  Estimate(self, x, s, k, XStart(self, x, k, ModelCall(self.model, x)))

WithLogSnr(self, x, s) ==
  WithCoefficients(self, x, s, Coefficients(s.log_snr, s.log_snr_next))

p_mean_variance(self, x, time, time_next) ==
  WithLogSnr(self, x, LogSnrPair(self.log_snr, time, time_next))

\* --------------------------------------------------------------- p_sample
\* noise added in the final transition too
InjectsNoise_always(time_next) == TRUE

\* whether p_sample adds noise to the mean
InjectsNoise(time_next) == time_next # 0

\* p_sample after its call of p_mean_variance
NoiseStep(mv, time_next, rng) ==
  IF ~InjectsNoise(time_next)
  THEN [img |-> mv.model_mean, rng |-> rng, drew |-> FALSE, noise |-> 0,
        mv |-> mv]
  ELSE [img |-> Add(mv.model_mean,
                    Mul(Sqrt(mv.posterior_variance), RandnValue(rng))),
        rng |-> RngNext(rng), drew |-> TRUE, noise |-> RandnValue(rng),
        mv |-> mv]

p_sample(self, x, time, time_next, rng) ==
  NoiseStep(p_mean_variance(self, x, time, time_next), time_next, rng)

\* torch.linspace(1., 0., n + 1)[i]
Linspace(n, i) == Grid - (i * Grid) \div n

\* the loop one iteration short
LoopCount_short(self) == self.num_sample_steps - 1

\* the range of p_sample_loop's for
LoopCount(self) == self.num_sample_steps

\* img.clamp_(-1., 1.) and unnormalize_to_zero_to_one at the loop's end
FinalImage(img) == unnormalize_to_zero_to_one(Clamp(img, 0 - Unit, Unit))

\* --------------------------------------------------------------- training
\* q_sample after its call of self.log_snr
Noised(x_start, noise, r) ==
  [x_noised |-> Add(Mul(x_start, Sqrt(Sigmoid(r.val))),
                    Mul(noise, Sqrt(Sigmoid(0 - r.val)))),
   log_snr |-> r.val, fn |-> r.fn]

\* q_sample with the noise already drawn
q_sample(self, x_start, times, noise) ==
  Noised(x_start, noise, Call(self.log_snr, times))

\* F.mse_loss on the representative element
mse_loss(input, target) == Mul(Sub(input, target), Sub(input, target))

\* the target p_losses computes, by objective
Target(self, x_start, noise, log_snr) ==
  IF self.pred_objective = "v"
  THEN Sub(Mul(noise, Sqrt(Sigmoid(log_snr))),
           Mul(x_start, Sqrt(Sigmoid(0 - log_snr))))
  ELSE noise

\* the prediction scored against the computed target
LossReference_target(noise, target) == target

\* what p_losses scores the prediction against
LossReference(noise, target) == noise

\* p_losses after the denoiser returned
Scored(noise, target, model_out, q) ==
  [loss |-> mse_loss(model_out, LossReference(noise, target)),
   target |-> target, model_out |-> model_out, x |-> q.x_noised,
   log_snr |-> q.log_snr, fn |-> q.fn]

\* p_losses after its call of q_sample
WithNoised(self, x_start, noise, q) ==
  Scored(noise, Target(self, x_start, noise, q.log_snr),
         ModelCall(self.model, q.x_noised), q)

\* p_losses with the noise already drawn
p_losses(self, x_start, times, noise) ==
  WithNoised(self, x_start, noise, q_sample(self, x_start, times, noise))

\* the assertion with the width forgotten
ShapeAccepted_heightOnly(self, shape) == shape[3] = self.image_size

\* forward's assertion on the unpacked shape
ShapeAccepted(self, shape) ==
  shape[3] = self.image_size /\ shape[4] = self.image_size

\* ------------------------------------------------------------ the machine
NoCalls == [model |-> 0, randn |-> 0, uniform |-> 0]
NoLoop  == [i |-> 0, img |-> 0, shape |-> << >>, seed |-> 0]
NoRet   == [op |-> "none", raised |-> NoError]
NoArgs  == [given |-> FALSE]
NoRun   == [seed |-> None, shape |-> << >>, value |-> 0, runs |-> 0]

\* the keyword arguments of the constructor
CtorArgs(objectives, steps, kinds, flags) ==
  [model : [kind : kinds, channels : ChannelSet],
   image_size : ImageSizes,
   channels : ChannelSet,
   pred_objective : objectives,
   noise_d : {None} \cup Resolutions,
   noise_d_low : {None} \cup Resolutions,
   noise_d_high : {None} \cup Resolutions,
   num_sample_steps : steps,
   clip_sample_denoised : flags]

Init ==
  /\ diffusion = [raised |-> NoError]
  /\ args = NoArgs
  /\ pc = "new"
  /\ generator = 0
  /\ loop = NoLoop
  /\ calls = NoCalls
  /\ ret = NoRet
  /\ trace = << >>
  /\ twin = 0
  /\ prevRun = NoRun

\* GaussianDiffusion(model, image_size = ..., ...)
Construct(argSet) ==
  /\ pc = "new"
  /\ args = NoArgs
  /\ \E a \in argSet :
       /\ args' = a
       /\ \E obj \in {GaussianDiffusion(a)} :
            /\ diffusion' = obj
            /\ pc' = IF obj.raised = NoError THEN "idle" ELSE "new"
            /\ ret' = [op |-> "__init__", raised |-> obj.raised]
  /\ UNCHANGED << generator, loop, calls, trace, twin, prevRun >>

\* torch.manual_seed(s)
ManualSeed ==
  /\ pc = "idle"
  /\ \E s \in RngStates : generator' = s
  /\ ret' = [op |-> "manual_seed", raised |-> NoError]
  /\ calls' = NoCalls
  /\ trace' = << >>
  /\ UNCHANGED << diffusion, args, pc, loop, twin, prevRun >>

Flipped(obj) ==
  [obj EXCEPT !.clip_sample_denoised = ~obj.clip_sample_denoised]

\* the buffer of an earlier run reused instead of a fresh draw
InitialImage_stale(rng) ==
  IF prevRun.runs = 0 THEN RandnValue(rng) ELSE prevRun.value

\* img = torch.randn(shape, ...) at the start of p_sample_loop
InitialImage(rng) == RandnValue(rng)

\* sample(batch_size) up to the first iteration of p_sample_loop
SampleBegin ==
  /\ pc = "idle"
  /\ \E batch_size \in 1 .. MaxBatch :
       loop' = [i |-> 0,
                img |-> InitialImage(generator),
                shape |-> << batch_size, diffusion.channels,
                             diffusion.image_size, diffusion.image_size >>,
                seed |-> generator]
  /\ twin' = InitialImage(generator)
  /\ generator' = RngNext(generator)
  /\ calls' = [NoCalls EXCEPT !.randn = 1]
  /\ trace' = << >>
  /\ pc' = "sampling"
  /\ ret' = NoRet
  /\ UNCHANGED << diffusion, args, prevRun >>

\* the record of one transition
Transition(i, time, time_next, x, r, t) ==
  [i |-> i, time |-> time, time_next |-> time_next,
   x |-> x, out |-> r.img, drew |-> r.drew, noise |-> r.noise,
   mean |-> r.mv.model_mean, variance |-> r.mv.posterior_variance,
   c |-> r.mv.c, alpha |-> r.mv.alpha,
   x_start_raw |-> r.mv.x_start_raw, x_start |-> r.mv.x_start,
   twin_mean |-> t.mv.model_mean, twin_variance |-> t.mv.posterior_variance]

\* one iteration of p_sample_loop's for: img = self.p_sample(img, times, times_next)
SampleStep ==
  /\ pc = "sampling"
  /\ loop.i < LoopCount(diffusion)
  /\ \E times \in {Linspace(diffusion.num_sample_steps, loop.i)},
        times_next \in {Linspace(diffusion.num_sample_steps, loop.i + 1)} :
       \E r \in {p_sample(diffusion, loop.img, times, times_next, generator)},
          t \in {p_sample(Flipped(diffusion), twin, times, times_next, generator)} :
         /\ loop' = [loop EXCEPT !.i = loop.i + 1, !.img = r.img]
         /\ twin' = t.img
         /\ generator' = r.rng
         /\ diffusion' = [diffusion EXCEPT !.log_snr = r.mv.fn]
         /\ calls' = [calls EXCEPT !.model = calls.model + 1,
                                   !.randn = calls.randn + (IF r.drew THEN 1 ELSE 0)]
         /\ trace' = Append(trace,
                            Transition(loop.i, times, times_next, loop.img, r, t))
  /\ UNCHANGED << args, pc, ret, prevRun >>

\* the end of p_sample_loop: clamp, unnormalize, return.  With track, the
\* first finished run is remembered in prevRun, and whether others followed.
SampleEnd(track) ==
  /\ pc = "sampling"
  /\ loop.i >= LoopCount(diffusion)
  /\ \E value \in {FinalImage(loop.img)} :
       /\ ret' = [op |-> "sample", raised |-> NoError, shape |-> loop.shape,
                  value |-> value, twin_value |-> FinalImage(twin),
                  last |-> loop.img, seed |-> loop.seed]
       /\ prevRun' = IF track /\ prevRun = NoRun
                     THEN [seed |-> loop.seed, shape |-> loop.shape,
                           value |-> value, runs |-> 1]
                     ELSE IF track THEN [prevRun EXCEPT !.runs = 2]
                     ELSE prevRun
  /\ pc' = "idle"
  /\ loop' = NoLoop
  /\ twin' = 0
  /\ UNCHANGED << diffusion, args, generator, calls, trace >>

\* UViT.forward: init_conv accepts only the channel count it was built for
ModelAccepts(model, shape) == shape[2] = model.channels

\* image batches forward is called with: every rank-4 shape over the sets,
\* and shapes of rank 3 and 5
ForwardShapes ==
  { << b, c, h, w >> : b \in 1 .. MaxBatch, c \in InputChannels,
                       h \in ImageSizes, w \in ImageSizes }
  \cup { << c, h, h >> : c \in ChannelSet, h \in ImageSizes }
  \cup { << 1, c, h, h, 1 >> : c \in ChannelSet, h \in ImageSizes }
PixelValues == {Unit \div 2, Unit}            \* image element in [0,1]
NoiseArgs == {None, Unit}                     \* noise = None, or given

\* forward(img, noise = ...)
Forward ==
  /\ pc = "idle"
  /\ trace' = << >>
  /\ \E shape \in ForwardShapes, pixel \in PixelValues, noiseArg \in NoiseArgs :
       IF Len(shape) # 4
       THEN /\ ret' = [op |-> "forward", raised |-> "ValueError:unpack",
                       shape |-> shape]
            /\ calls' = NoCalls
            /\ UNCHANGED << diffusion, generator >>
       ELSE IF ~ShapeAccepted(diffusion, shape)
       THEN /\ ret' = [op |-> "forward", raised |-> "AssertionError:height_width",
                       shape |-> shape]
            /\ calls' = NoCalls
            /\ UNCHANGED << diffusion, generator >>
       ELSE \E img \in {normalize_to_neg_one_to_one(pixel)},
               times \in {UniformValue(generator)},
               noise \in {IF exists(noiseArg) THEN noiseArg
                          ELSE RandnValue(RngNext(generator))} :
              \E l \in {p_losses(diffusion, img, times, noise)} :
                /\ generator' = IF exists(noiseArg) THEN RngNext(generator)
                                ELSE RngNext(RngNext(generator))
                /\ diffusion' = [diffusion EXCEPT !.log_snr = l.fn]
                /\ calls' = [model |-> 1, uniform |-> 1,
                             randn |-> IF exists(noiseArg) THEN 0 ELSE 1]
                /\ ret' = IF ModelAccepts(diffusion.model, shape)
                          THEN [op |-> "forward", raised |-> NoError,
                                shape |-> shape, loss |-> l.loss,
                                target |-> l.target, model_out |-> l.model_out,
                                noise |-> noise, x_start |-> img, times |-> times]
                          ELSE [op |-> "forward", raised |-> "RuntimeError:channels",
                                shape |-> shape]
  /\ UNCHANGED << args, pc, loop, twin, prevRun >>

ElementValues == {0 - 15000, 5000}            \* elements of a sample tensor
CallTimes == {0, 20, 40, 60}                  \* t = 0, 1/3, 2/3, 1

\* q_sample(x_start, times, noise = ...)
QSample ==
  /\ pc = "idle"
  /\ trace' = << >>
  /\ \E x_start \in ElementValues, times \in CallTimes, noiseArg \in NoiseArgs :
       \E noise \in {IF exists(noiseArg) THEN noiseArg ELSE RandnValue(generator)} :
         \E q \in {q_sample(diffusion, x_start, times, noise)} :
           /\ generator' = IF exists(noiseArg) THEN generator ELSE RngNext(generator)
           /\ diffusion' = [diffusion EXCEPT !.log_snr = q.fn]
           /\ calls' = [NoCalls EXCEPT !.randn = IF exists(noiseArg) THEN 0 ELSE 1]
           /\ ret' = [op |-> "q_sample", raised |-> NoError,
                      x_noised |-> q.x_noised, log_snr |-> q.log_snr]
  /\ UNCHANGED << args, pc, loop, twin, prevRun >>

\* p_mean_variance(x, time, time_next) with time_next earlier than time
PMeanVariance ==
  /\ pc = "idle"
  /\ trace' = << >>
  /\ \E x \in ElementValues, time \in CallTimes, time_next \in CallTimes :
       /\ time_next < time
       /\ \E mv \in {p_mean_variance(diffusion, x, time, time_next)} :
            /\ diffusion' = [diffusion EXCEPT !.log_snr = mv.fn]
            /\ calls' = [NoCalls EXCEPT !.model = 1]
            /\ ret' = [op |-> "p_mean_variance", raised |-> NoError,
                       model_mean |-> mv.model_mean,
                       posterior_variance |-> mv.posterior_variance]
  /\ UNCHANGED << args, pc, generator, loop, twin, prevRun >>

SchedulePairs == { << t1, t2 >> \in Times \X Times : t1 <= t2 }

\* self.log_snr(t1) and self.log_snr(t2) of a newly built object, for two
\* times t1 <= t2
LogSnr ==
  /\ pc = "idle"
  /\ ret.op = "__init__"
  /\ trace' = << >>
  /\ calls' = NoCalls
  /\ \E p \in SchedulePairs :
       \E s \in {LogSnrPair(diffusion.log_snr, p[1], p[2])} :
         /\ diffusion' = [diffusion EXCEPT !.log_snr = s.fn]
         /\ ret' = [op |-> "log_snr", raised |-> NoError, t1 |-> p[1],
                    t2 |-> p[2], v1 |-> s.log_snr, v2 |-> s.log_snr_next]
  /\ UNCHANGED << args, pc, generator, loop, twin, prevRun >>

\* ------------------------------------------------------- specifications
\* every call of the public interface, on objects that take MaxSteps steps
\* and whose denoiser echoes its input
Next ==
  \/ Construct(CtorArgs(Objectives, {MaxSteps}, {"echo"}, BOOLEAN))
  \/ ManualSeed
  \/ SampleBegin
  \/ SampleStep
  \/ SampleEnd(FALSE)
  \/ Forward
  \/ QSample
  \/ PMeanVariance

Spec == Init /\ [][Next]_vars

\* construction alone, over every argument combination
NextConstruct ==
  Construct(CtorArgs(ObjectiveArgs, 1 .. MaxSteps, DenoiserKinds, BOOLEAN))

SpecConstruct == Init /\ [][NextConstruct]_vars

\* sampling, over every accepted configuration and step count
NextSample ==
  \/ Construct(CtorArgs(Objectives, 1 .. MaxSteps, DenoiserKinds, BOOLEAN))
  \/ ManualSeed
  \/ SampleBegin
  \/ SampleStep
  \/ SampleEnd(FALSE)

SpecSample == Init /\ [][NextSample]_vars

\* repeated sampling with the denoiser that always returns zero; the first
\* finished run is remembered
NextRepeat ==
  \/ Construct(CtorArgs(Objectives, 1 .. MaxSteps, {"zero"}, {TRUE}))
  \/ ManualSeed
  \/ SampleBegin
  \/ SampleStep
  \/ SampleEnd(TRUE)

SpecRepeat == Init /\ [][NextRepeat]_vars

\* training, over every accepted configuration
NextTrain ==
  \/ Construct(CtorArgs(Objectives, {MaxSteps}, DenoiserKinds, {TRUE}))
  \/ ManualSeed
  \/ Forward

SpecTrain == Init /\ [][NextTrain]_vars

\* the schedule of every accepted configuration, at every pair of times
NextSchedule ==
  \/ Construct(CtorArgs({"v"}, {MaxSteps}, {"zero"}, {TRUE}))
  \/ LogSnr

SpecSchedule == Init /\ [][NextSchedule]_vars

\* --------------------------------------------------------------- claims
Constructed == ret.op = "__init__"
Sampled == ret.op = "sample"
Steps == diffusion.num_sample_steps

\* C1: the constructor raises exactly when pred_objective is not an
\* objective, when noise_d comes together with both noise_d_low and
\* noise_d_high, or when exactly one of noise_d_low / noise_d_high is given;
\* an accepted object carries the plain schedule (nothing given), the shifted
\* one (only noise_d) or the interpolated one (only the pair), and never a
\* shift under an interpolation.
C1_Rejected ==
  \/ args.pred_objective \notin Objectives
  \/ exists(args.noise_d) /\ exists(args.noise_d_low) /\ exists(args.noise_d_high)
  \/ exists(args.noise_d_low) # exists(args.noise_d_high)

C1_Variant ==
  LET f == diffusion.log_snr
      d == exists(args.noise_d)
      l == exists(args.noise_d_low)
      h == exists(args.noise_d_high)
  IN  /\ Wrappers(f) <= 1
      /\ \/ ~d /\ ~l /\ ~h /\ f = CosineFn
         \/ d /\ ~l /\ ~h
            /\ f = logsnr_schedule_shifted(CosineFn, args.image_size, args.noise_d)
         \/ ~d /\ l /\ h
            /\ f = logsnr_schedule_interpolated(CosineFn, args.image_size,
                                                args.noise_d_low, args.noise_d_high)

C1_ConstructionValidation ==
  Constructed =>
    /\ (diffusion.raised # NoError) <=> C1_Rejected
    /\ diffusion.raised = NoError => C1_Variant

C1_Witness ==
  /\ Constructed
  /\ diffusion.raised = "AssertionError:noise_d_low_high"
  /\ exists(args.noise_d)

\* C2 (as stated): forward on a batch whose shape is not
\* [B, channels, image_size, image_size] raises before any time is sampled,
\* any noise is drawn or the denoiser is invoked.
C2_WrongSize(shape) ==
  \/ Len(shape) # 4
  \/ shape[3] # diffusion.image_size
  \/ shape[4] # diffusion.image_size

C2_RaisesOnAnyWrongShape ==
  ret.op = "forward"
    /\ (C2_WrongSize(ret.shape) \/ ret.shape[2] # diffusion.channels)
  => ret.raised # NoError /\ calls = NoCalls

\* C2 (amended): forward on a batch of wrong rank, height or width raises
\* before anything is sampled, drawn or invoked; with the right height and
\* width it samples a time and invokes the denoiser whatever the channel
\* count, which only the denoiser checks.
C2_RaisesOnWrongSize ==
  ret.op = "forward" =>
    IF C2_WrongSize(ret.shape)
    THEN /\ ret.raised \in {"ValueError:unpack", "AssertionError:height_width"}
         /\ calls = NoCalls
    ELSE /\ calls.uniform = 1
         /\ calls.model = 1
         /\ (ret.raised # NoError) <=> (ret.shape[2] # diffusion.model.channels)

C2_Witness ==
  /\ ret.op = "forward"
  /\ ret.raised = "AssertionError:height_width"
  /\ Len(ret.shape) = 4
  /\ ret.shape[3] = diffusion.image_size
  /\ ret.shape[4] # diffusion.image_size

\* C3: a sampling run makes exactly num_sample_steps transitions and one
\* denoiser call per transition; transition i goes from 1 - i/N to
\* 1 - (i+1)/N, the first from 1 and the last to 0; and each transition
\* starts from the sample the one before returned.
C3_Chain ==
  /\ pc = "sampling" => Len(trace) = loop.i /\ calls.model = loop.i
                        /\ loop.i <= Steps
  /\ pc = "sampling" \/ Sampled =>
       \A k \in 1 .. Len(trace) :
         /\ trace[k].i = k - 1
         /\ trace[k].time * Steps = Grid * (Steps - (k - 1))
         /\ trace[k].time_next * Steps = Grid * (Steps - k)
         /\ trace[k].time_next < trace[k].time
         /\ k > 1 => trace[k].x = trace[k - 1].out
  /\ Sampled =>
       /\ Len(trace) = Steps
       /\ calls.model = Steps
       /\ trace[1].time = Grid
       /\ trace[Steps].time_next = 0
       /\ ret.last = trace[Steps].out

C3_Witness ==
  /\ Sampled
  /\ Steps >= 3
  /\ Len(trace) = Steps

\* C4: a transition adds fresh noise exactly when its time_next is not 0,
\* that is in every transition but the last: the last returns the mean and
\* draws nothing, the others return mean + sqrt(variance) * noise.
C4_NoiseButLast ==
  /\ pc = "sampling" \/ Sampled =>
       \A k \in 1 .. Len(trace) :
         /\ trace[k].drew <=> trace[k].time_next # 0
         /\ trace[k].drew <=> k < Steps
         /\ ~trace[k].drew => trace[k].out = trace[k].mean
         /\ trace[k].drew =>
              trace[k].out = Add(trace[k].mean,
                                 Mul(Sqrt(trace[k].variance), trace[k].noise))
  /\ Sampled => calls.randn = Steps

C4_Witness ==
  /\ Sampled
  /\ Steps >= 2
  /\ trace[1].drew
  /\ ~trace[Steps].drew
  /\ trace[Steps].out = trace[Steps].mean

\* C5 (as stated): sample returns a batch of shape
\* [batch_size, channels, image_size, image_size] whose values lie in [0,1],
\* for every accepted configuration and every denoiser output; stated here
\* for the denoisers that return numbers.
C5_ShapeOk ==
  /\ Len(ret.shape) = 4
  /\ ret.shape[1] \in 1 .. MaxBatch
  /\ ret.shape[2] = diffusion.channels
  /\ ret.shape[3] = diffusion.image_size
  /\ ret.shape[4] = diffusion.image_size

C5_OutputInUnitInterval ==
  Sampled /\ diffusion.model.kind # "nan" =>
    C5_ShapeOk /\ 0 <= ret.value /\ ret.value <= Unit

\* C5 (amended): sample returns that shape, and its values are the working
\* sample clamped to [-1,1] and mapped by (x+1)*0.5: every value lies in
\* [0,1] or is NaN, and it is NaN exactly when the working sample after the
\* last transition is NaN, which the clamp lets through.
C5_OutputInUnitIntervalOrNaN ==
  Sampled =>
    /\ C5_ShapeOk
    /\ IsNaN(ret.value) <=> IsNaN(ret.last)
    /\ ~IsNaN(ret.value) =>
         /\ 0 <= ret.value /\ ret.value <= Unit
         /\ ret.value = Mul(Add(Clamp(ret.last, 0 - Unit, Unit), Unit), Unit \div 2)

C5_Witness ==
  /\ Sampled
  /\ Steps >= 2
  /\ diffusion.log_snr.kind = "interpolated"
  /\ ret.value = Unit

\* C6: the loss is the mean squared error between the prediction and the
\* noise in both objective modes: the loss of the velocity mode equals the
\* loss of the noise mode on the same batch, times, noise and prediction,
\* and the velocity target has no part in it.
C6_OtherMode ==
  [diffusion EXCEPT !.pred_objective = IF @ = "v" THEN "eps" ELSE "v"]

C6_LossAgainstNoise ==
  ret.op = "forward" /\ ret.raised = NoError =>
    /\ ret.loss = mse_loss(ret.model_out, ret.noise)
    /\ ret.loss = p_losses(C6_OtherMode, ret.x_start, ret.times, ret.noise).loss

C6_Witness ==
  /\ ret.op = "forward"
  /\ ret.raised = NoError
  /\ diffusion.pred_objective = "v"
  /\ ret.target # ret.noise
  /\ ret.loss # mse_loss(ret.model_out, ret.target)

\* C7 (as stated): for every accepted schedule and all times t1 <= t2,
\* logSNR(t1) >= logSNR(t2).
C7_NonIncreasing ==
  ret.op = "log_snr" => ret.v1 >= ret.v2

\* C7 (amended): logSNR(t1) >= logSNR(t2) for all t1 <= t2 under the plain
\* schedule, under every shifted schedule, and under the interpolated
\* schedules with noise_d_low <= noise_d_high.
C7_NonIncreasingUnlessLowAboveHigh ==
  ret.op = "log_snr"
    /\ (diffusion.log_snr.kind = "interpolated"
          => args.noise_d_low <= args.noise_d_high)
  => ret.v1 >= ret.v2

C7_Witness ==
  /\ ret.op = "log_snr"
  /\ diffusion.log_snr.kind = "interpolated"
  /\ args.noise_d_low < args.noise_d_high
  /\ ret.t1 < ret.t2
  /\ ret.v1 > ret.v2

\* C8: with the denoiser that always returns zero, a sampling run started
\* from the seed of an earlier run of the same object, for the same shape,
\* returns the same output.
C8_SameSeedSameOutput ==
  Sampled /\ prevRun.runs >= 1
    /\ prevRun.seed = ret.seed /\ prevRun.shape = ret.shape
  => ret.value = prevRun.value

C8_Witness ==
  /\ Sampled
  /\ prevRun.runs = 2
  /\ prevRun.seed = ret.seed
  /\ prevRun.shape = ret.shape
  /\ Steps >= 2
  /\ ~IsNaN(ret.value)

\* C9: whatever calls were made since construction, and whether they
\* returned or raised, the object is the one the constructor built: the
\* schedule closure with its offsets, pred_objective, image_size, channels,
\* num_sample_steps and clip_sample_denoised.
C9_ConfigurationFrozen ==
  pc # "new" => diffusion = GaussianDiffusion(args)

C9_Witness ==
  /\ ret.op = "forward"
  /\ ret.raised = "RuntimeError:channels"
  /\ diffusion.log_snr.kind = "interpolated"
  /\ diffusion = GaussianDiffusion(args)

\* C10: in every transition, in both objective modes and whatever
\* clip_sample_denoised is, x_start enters the mean clamped to [-1,1]; and
\* the same run on an object that differs only in clip_sample_denoised has
\* the same means, variances, samples and output.
C10_ClampUnconditional ==
  /\ pc = "sampling" => twin = loop.img
  /\ pc = "sampling" \/ Sampled =>
       \A k \in 1 .. Len(trace) :
         /\ trace[k].x_start = Clamp(trace[k].x_start_raw, 0 - Unit, Unit)
         /\ ~IsNaN(trace[k].x_start_raw) =>
              0 - Unit <= trace[k].x_start /\ trace[k].x_start <= Unit
         /\ trace[k].twin_mean = trace[k].mean
         /\ trace[k].twin_variance = trace[k].variance
  /\ Sampled => ret.twin_value = ret.value

C10_Witness ==
  /\ Sampled
  /\ ~diffusion.clip_sample_denoised
  /\ \E k \in 1 .. Len(trace) :
       /\ ~IsNaN(trace[k].x_start_raw)
       /\ trace[k].x_start_raw > Unit
       /\ trace[k].x_start = Unit

\* C11 (as stated): in every transition of a sampling run, for every accepted
\* schedule configuration, c lies in [0,1] and posterior_variance is
\* non-negative, so the square root taken in a noise-adding transition is
\* defined.
C11_CoefficientInRange(k) ==
  /\ 0 <= trace[k].c /\ trace[k].c <= Unit
  /\ trace[k].variance >= 0
  /\ trace[k].drew => ~IsNaN(Sqrt(trace[k].variance))

C11_VarianceNonNegative ==
  pc = "sampling" \/ Sampled =>
    \A k \in 1 .. Len(trace) : C11_CoefficientInRange(k)

\* C11 (amended): in every transition of a sampling run under the plain
\* schedule, under a shifted schedule, or under an interpolated schedule with
\* noise_d_low <= noise_d_high, c lies in [0,1] and posterior_variance is
\* non-negative, so the square root taken in a noise-adding transition is
\* defined.
C11_VarianceNonNegativeUnlessLowAboveHigh ==
  (pc = "sampling" \/ Sampled)
    /\ (diffusion.log_snr.kind = "interpolated"
          => args.noise_d_low <= args.noise_d_high)
  => \A k \in 1 .. Len(trace) : C11_CoefficientInRange(k)

C11_Witness ==
  /\ Sampled
  /\ Steps >= 3
  /\ diffusion.log_snr.kind = "interpolated"
  /\ args.noise_d_low < args.noise_d_high
  /\ \E k \in 1 .. Len(trace) :
       /\ trace[k].drew
       /\ 0 < trace[k].c /\ trace[k].c < Unit
       /\ trace[k].variance > 0

====
